---- MODULE Spec2Model ----
(***************************************************************************)
(* Order Store (src/src/context/OrderContext.tsx) and Sales Store          *)
(* (src/unnamed/part_000, the SalesContext module) of the point-of-sale    *)
(* application, as one state machine.                                      *)
(*                                                                         *)
(* A JavaScript object is a function from the keys it carries to their     *)
(* values: a key that is absent from the object is absent from DOMAIN.     *)
(* Numbers are finite integers.  A handler runs to completion and its      *)
(* state updates are committed before the next handler runs; the deferred  *)
(* work (setTimeout callbacks, the useEffect that persists the orders) is  *)
(* a step of its own.                                                      *)
(***************************************************************************)
EXTENDS Integers, Sequences, FiniteSets, TLC

VARIABLES
    clock,                   \* the reading of Date.now()
    orders,                  \* OrderProvider state `orders`
    sales,                   \* SalesProvider state `sales`
    lsOrders,                \* localStorage entry 'orders'
    lsSales,                 \* localStorage entry 'sales'
    ordersEffect,            \* the useEffect on [orders] is pending
    timers,                  \* pending setTimeout(..., 0) callbacks, FIFO
    saleCreationInProgress,  \* the ref'd Set of order ids
    logged,                  \* logActivity calls made by the last step
    batchSales,              \* history: per order id, sales derived since no derivation was pending
    flips,                   \* history: per order id, false -> true changes of saleCreated
    created,                 \* history: per order id, orders that were given it
    clearedIds,              \* history: ids of the sales removed by clearSales
    crashed,                 \* the effect has thrown: React has unmounted the providers
    persistFailed,           \* history: a write to localStorage 'sales' has thrown
    commands                 \* history: number of commands the user interface has issued

vars == <<clock, orders, sales, lsOrders, lsSales, ordersEffect, timers,
          saleCreationInProgress, logged, crashed, batchSales, flips,
          created, clearedIds, persistFailed, commands>>

(***************************************************************************)
(* Bounds                                                                  *)
(***************************************************************************)
MaxClock == 1
MaxOrders == 2
MaxSales == 2
MaxTimers == 2
MaxCommands == 3

(***************************************************************************)
(* JavaScript helpers                                                      *)
(***************************************************************************)
\* { ...a, ...b } : the keys of both, b's value where both carry the key
Spread(a, b) == b @@ a

\* o.k || d for a numeric property: undefined and 0 are falsy
NumOr(o, k, d) == IF k \in DOMAIN o /\ o[k] # 0 THEN o[k] ELSE d

\* o.k || d for a string property: undefined and '' are falsy
StrOr(o, k, d) == IF k \in DOMAIN o /\ o[k] # "" THEN o[k] ELSE d

\* !o.k for a boolean property: undefined and false are falsy
IsFalsy(o, k) == k \notin DOMAIN o \/ o[k] = FALSE

\* the object { k: o.from } ; a property read as undefined is left out
Prop(k, o, from) == IF from \in DOMAIN o THEN k :> o[from] ELSE <<>>

\* new Date().toISOString()
toISOString(t) == <<"ISO", t>>

\* `ORD-${Date.now()}`
OrderId(t) == <<"ORD", t>>

\* `SALE-${Date.now()}`
SaleId(t) == <<"SALE", t>>

OrderIds == {OrderId(t) : t \in -1..MaxClock}

\* Array.prototype.find
RECURSIVE Find(_, _)
Find(seq, id) ==
    IF seq = <<>> THEN <<>>
    ELSE IF Head(seq).id = id THEN <<Head(seq)>>
    ELSE Find(Tail(seq), id)

(***************************************************************************)
(* JSON.stringify / JSON.parse and localStorage.  A JSON object text is    *)
(* the list of the key/value pairs of the keys the object carries; an      *)
(* array text is the list of its elements' texts.                          *)
(***************************************************************************)
JSONKeys == <<"id", "customerName", "items", "subtotal", "total", "discount",
              "status", "orderDate", "createdBy", "finalAmount",
              "advancePayment", "saleCreated", "paymentReceived", "change",
              "date", "cashier", "storeLocation", "productId", "quantity",
              "price">>

RECURSIVE stringifyObject(_)
stringifyObject(o) ==
    LET ks == SelectSeq(JSONKeys, LAMBDA k : k \in DOMAIN o)
    IN  [i \in 1..Len(ks) |->
            <<ks[i], IF ks[i] = "items"
                     THEN [j \in 1..Len(o.items) |-> stringifyObject(o.items[j])]
                     ELSE o[ks[i]]>>]

stringify(arr) == [i \in 1..Len(arr) |-> stringifyObject(arr[i])]

RECURSIVE parseObject(_)
parseObject(ps) ==
    [k \in {ps[i][1] : i \in 1..Len(ps)} |->
        LET i == CHOOSE n \in 1..Len(ps) : ps[n][1] = k
        IN  IF k = "items"
            THEN [j \in 1..Len(ps[i][2]) |-> parseObject(ps[i][2][j])]
            ELSE ps[i][2]]

parse(text) == [i \in 1..Len(text) |-> parseObject(text[i])]

\* localStorage.getItem results
Null == [kind |-> "null"]
Text(json) == [kind |-> "string", json |-> json]
Garbage == [kind |-> "garbage"]     \* a stored string that is not JSON

\* SalesProvider's useState initializer
loadSales(item) ==
    IF item.kind = "string" THEN parse(item.json) ELSE <<>>

\* OrderProvider's useState initializer
loadOrders(item) ==
    IF item.kind = "null" THEN <<>> ELSE parse(item.json)

(***************************************************************************)
(* Inputs                                                                  *)
(***************************************************************************)
Item1 == [productId |-> "p1", quantity |-> 2, price |-> 10]
Item2 == [productId |-> "p2", quantity |-> 1, price |-> 30]

StoreLocation == "UP2DATE FASHION"

OrderPayloads ==
    { [customerName |-> "A", items |-> <<Item1>>, total |-> 20,
       finalAmount |-> 18, discount |-> 2, advancePayment |-> 0,
       status |-> "pending"],
      [customerName |-> "B", items |-> <<Item2>>, total |-> 30,
       finalAmount |-> 30, advancePayment |-> 5, status |-> "completed",
       createdBy |-> "alice", saleCreated |-> TRUE] }

OrderUpdates ==
    { [status |-> "completed"],
      [status |-> "pending"],
      [status |-> "completed", finalAmount |-> 25],
      [saleCreated |-> FALSE] }

SaleInputs ==
    { [items |-> <<Item1>>, subtotal |-> 20, total |-> 18, discount |-> 2,
       paymentReceived |-> 20, change |-> 2, cashier |-> "bob",
       storeLocation |-> StoreLocation],
      [items |-> <<[productId |-> "p2"]>>, total |-> 0, cashier |-> "carol",
       storeLocation |-> StoreLocation],
      [total |-> 5, cashier |-> "dan", storeLocation |-> StoreLocation] }

(***************************************************************************)
(* Sales Store                                                             *)
(***************************************************************************)
\* newSale without the defaults of the items
newSale_ItemsAsGiven(saleData, now) ==
    Spread(saleData,
        [id |-> SaleId(now),
         date |-> toISOString(now),
         subtotal |-> NumOr(saleData, "subtotal", 0),
         total |-> NumOr(saleData, "total", 0),
         discount |-> NumOr(saleData, "discount", 0),
         paymentReceived |-> NumOr(saleData, "paymentReceived", 0),
         change |-> NumOr(saleData, "change", 0)])

\* the newSale object literal of addSale; saleData.items.map throws when
\* items is undefined
newSale(saleData, now) ==
    Spread(saleData,
        [id |-> SaleId(now),
         date |-> toISOString(now),
         subtotal |-> NumOr(saleData, "subtotal", 0),
         total |-> NumOr(saleData, "total", 0),
         discount |-> NumOr(saleData, "discount", 0),
         paymentReceived |-> NumOr(saleData, "paymentReceived", 0),
         change |-> NumOr(saleData, "change", 0),
         items |-> [j \in 1..Len(saleData.items) |->
                       Spread(saleData.items[j],
                           [quantity |-> NumOr(saleData.items[j], "quantity", 0),
                            price |-> NumOr(saleData.items[j], "price", 0)])]])

\* addSaleState putting the new sale in front
addSaleState_Prepend(prevSales, saleData, now) ==
    IF "items" \in DOMAIN saleData
    THEN <<newSale(saleData, now)>> \o prevSales
    ELSE prevSales

\* the sales sequence after addSale(saleData)
addSaleState(prevSales, saleData, now) ==
    IF "items" \in DOMAIN saleData
    THEN Append(prevSales, newSale(saleData, now))
    ELSE prevSales

\* addSaleStorage writing prevSales instead of updatedSales
addSaleStorage_Prev(item, prevSales, saleData, now, ok) ==
    IF "items" \in DOMAIN saleData /\ ok
    THEN Text(stringify(prevSales))
    ELSE item

\* localStorage 'sales' after addSale(saleData); setItem throws when ~ok
addSaleStorage(item, prevSales, saleData, now, ok) ==
    IF "items" \in DOMAIN saleData /\ ok
    THEN Text(stringify(addSaleState(prevSales, saleData, now)))
    ELSE item

getSaleById(s, id) == Find(s, id)

(***************************************************************************)
(* Order Store                                                             *)
(***************************************************************************)
\* the newOrder object literal of addOrder
newOrder(orderData, now) ==
    Spread(orderData,
        [id |-> OrderId(now), orderDate |-> toISOString(now),
         saleCreated |-> FALSE])

\* saleFromOrder taking the sale's total from order.total
saleFromOrder_TotalFromTotal(order) ==
    Spread(Spread(Spread(Prop("items", order, "items"),
                         Prop("subtotal", order, "total")),
                  Prop("total", order, "total")),
        [discount |-> NumOr(order, "discount", 0),
         paymentReceived |->
             NumOr(order, "advancePayment", NumOr(order, "finalAmount", 0)),
         change |-> 0,
         cashier |-> StrOr(order, "createdBy", "System"),
         storeLocation |-> StoreLocation,
         date |-> toISOString(clock)])

\* saleFromOrder without the fallback of paymentReceived to finalAmount
saleFromOrder_NoFallback(order) ==
    Spread(Spread(Spread(Prop("items", order, "items"),
                         Prop("subtotal", order, "total")),
                  Prop("total", order, "finalAmount")),
        [discount |-> NumOr(order, "discount", 0),
         paymentReceived |-> NumOr(order, "advancePayment", 0),
         change |-> 0,
         cashier |-> StrOr(order, "createdBy", "System"),
         storeLocation |-> StoreLocation,
         date |-> toISOString(clock)])

\* the sale object literal of createSaleFromOrder; addSale replaces its date
saleFromOrder(order) ==
    Spread(Spread(Spread(Prop("items", order, "items"),
                         Prop("subtotal", order, "total")),
                  Prop("total", order, "finalAmount")),
        [discount |-> NumOr(order, "discount", 0),
         paymentReceived |->
             NumOr(order, "advancePayment", NumOr(order, "finalAmount", 0)),
         change |-> 0,
         cashier |-> StrOr(order, "createdBy", "System"),
         storeLocation |-> StoreLocation,
         date |-> toISOString(clock)])

getOrderById(o, id) == Find(o, id)

\* order.createdBy || 'system'
Actor(order) == StrOr(order, "createdBy", "system")

\* the condition under which updateOrder logs the status change
StatusChanges(order, updates) ==
    "status" \in DOMAIN updates /\ updates.status # "" /\
    updates.status # order.status

\* the condition under which updateOrder schedules the sale creation
Schedules(order, updates) ==
    StatusChanges(order, updates) /\ updates.status = "completed" /\
    IsFalsy(order, "saleCreated")

\* updatedOrders merging the update into every order
updatedOrders_Everywhere(prev, id, updates) ==
    [i \in 1..Len(prev) |-> Spread(prev[i], updates)]

\* updatedOrders marking the sale as created in the update itself
updatedOrders_MarksAtOnce(prev, id, updates) ==
    [i \in 1..Len(prev) |->
        IF prev[i].id = id
        THEN Spread(Spread(prev[i], updates),
                    IF Schedules(prev[i], updates)
                    THEN [saleCreated |-> TRUE] ELSE <<>>)
        ELSE prev[i]]

\* prev.map(...) of updateOrder
updatedOrders(prev, id, updates) ==
    [i \in 1..Len(prev) |->
        IF prev[i].id = id THEN Spread(prev[i], updates) ELSE prev[i]]

\* scheduled handing over the order as it was before the merge
RECURSIVE scheduled_PreUpdate(_, _, _)
scheduled_PreUpdate(prev, id, updates) ==
    IF prev = <<>> THEN <<>>
    ELSE (IF Head(prev).id = id /\ Schedules(Head(prev), updates)
          THEN <<Head(prev)>> ELSE <<>>)
         \o scheduled_PreUpdate(Tail(prev), id, updates)

\* the snapshots handed to setTimeout by updateOrder, in map order
RECURSIVE scheduled(_, _, _)
scheduled(prev, id, updates) ==
    IF prev = <<>> THEN <<>>
    ELSE (IF Head(prev).id = id /\ Schedules(Head(prev), updates)
          THEN <<Spread(Head(prev), updates)>> ELSE <<>>)
         \o scheduled(Tail(prev), id, updates)

\* the logActivity calls of updateOrder, in map order
RECURSIVE statusLog(_, _, _)
statusLog(prev, id, updates) ==
    IF prev = <<>> THEN <<>>
    ELSE (IF Head(prev).id = id /\ StatusChanges(Head(prev), updates)
          THEN <<[user |-> Actor(Head(prev)), type |-> "ORDER_STATUS_UPDATED",
                  id |-> id, from |-> Head(prev).status,
                  to |-> updates.status]>>
          ELSE <<>>)
         \o statusLog(Tail(prev), id, updates)

\* prev.map(o => o.id === order.id ? { ...o, saleCreated: true } : o)
markSaleCreated(prev, id) ==
    [i \in 1..Len(prev) |->
        IF prev[i].id = id THEN Spread(prev[i], [saleCreated |-> TRUE])
        ELSE prev[i]]

\* prev.filter(order => order.id !== id)
removeOrder(prev, id) == SelectSeq(prev, LAMBDA o : o.id # id)

\* setTimeout handles: the smallest handles not pending
RECURSIVE FreeHandles(_, _, _)
FreeHandles(used, n, from) ==
    IF n = 0 THEN <<>>
    ELSE IF from \in used THEN FreeHandles(used, n, from + 1)
    ELSE <<from>> \o FreeHandles(used, n - 1, from + 1)

PendingHandles == {timers[i].handle : i \in 1..Len(timers)}
PendingIds == {timers[i].order.id : i \in 1..Len(timers)}

Sat(n) == IF n < 2 THEN n + 1 ELSE n

\* number of orders of the sequence whose saleCreated goes from falsy to true
Flipped(before, after, id) ==
    \E i \in 1..Len(before) :
        /\ before[i].id = id
        /\ IsFalsy(before[i], "saleCreated")
        /\ i <= Len(after) /\ ~IsFalsy(after[i], "saleCreated")

FlipsAfter(before, after) ==
    [id \in OrderIds |->
        IF Flipped(before, after, id) THEN Sat(flips[id]) ELSE flips[id]]

(***************************************************************************)
(* Initial state: both providers mounted, their state read from            *)
(* localStorage, the effect of the first render pending.  localStorage     *)
(* holds what an earlier session left there: nothing, an order that is     *)
(* being processed and a 'sales' entry that is not JSON, a sale, or an     *)
(* order written without its items.                                        *)
(***************************************************************************)
StoredOrder ==
    Spread(newOrder([customerName |-> "Z", items |-> <<Item1>>, total |-> 20,
                     finalAmount |-> 20, discount |-> 0, advancePayment |-> 0,
                     status |-> "pending"], -1),
           [status |-> "processing"])

StoredOrderNoItems ==
    Spread(newOrder([customerName |-> "Y", total |-> 20, finalAmount |-> 20,
                     discount |-> 0, advancePayment |-> 0,
                     status |-> "pending"], -1),
           [status |-> "processing"])

StoredSale ==
    newSale([items |-> <<Item2>>, subtotal |-> 30, total |-> 30,
             discount |-> 0, paymentReceived |-> 30, change |-> 0,
             cashier |-> "bob", storeLocation |-> StoreLocation], -1)

Stored ==
    { [orders |-> Null, sales |-> Null],
      [orders |-> Text(stringify(<<StoredOrder>>)), sales |-> Garbage],
      [orders |-> Null, sales |-> Text(stringify(<<StoredSale>>))],
      [orders |-> Text(stringify(<<StoredOrderNoItems>>)), sales |-> Null] }

Init ==
    /\ clock = 0
    /\ \E s \in Stored : lsOrders = s.orders /\ lsSales = s.sales
    /\ orders = loadOrders(lsOrders)
    /\ sales = loadSales(lsSales)
    /\ ordersEffect = TRUE
    /\ timers = <<>>
    /\ saleCreationInProgress = {}
    /\ logged = <<>>
    /\ crashed = FALSE
    /\ batchSales = [id \in OrderIds |-> 0]
    /\ flips = [id \in OrderIds |-> 0]
    /\ created = [id \in OrderIds |->
                     Cardinality({i \in 1..Len(orders) : orders[i].id = id})]
    /\ clearedIds = {}
    /\ persistFailed = FALSE
    /\ commands = 0

(***************************************************************************)
(* Steps.  React runs a pending effect before it renders again, so every   *)
(* handler finds the effect of the previous commit done.                   *)
(***************************************************************************)
\* time passes
Tick ==
    /\ ~crashed
    /\ clock < MaxClock
    /\ clock' = clock + 1
    /\ logged' = <<>>
    /\ UNCHANGED <<orders, sales, lsOrders, lsSales, ordersEffect, timers,
                   saleCreationInProgress, crashed, batchSales, flips,
                   created, clearedIds, persistFailed, commands>>

\* persistOrders writing nothing when no order is left
persistOrders_SkipsEmpty ==
    /\ ~crashed
    /\ ordersEffect
    /\ \E ok \in BOOLEAN :
          /\ lsOrders' = IF ok /\ orders # <<>>
                         THEN Text(stringify(orders)) ELSE lsOrders
          /\ crashed' = ~ok
    /\ ordersEffect' = FALSE
    /\ logged' = <<>>
    /\ UNCHANGED <<clock, orders, sales, lsSales, timers,
                   saleCreationInProgress, batchSales, flips, created,
                   clearedIds, persistFailed, commands>>

\* useEffect(() => localStorage.setItem('orders', JSON.stringify(orders)), [orders])
\* setItem throws when ~ok; nothing catches it, and an error thrown by an
\* effect makes React unmount the tree: the session is over
persistOrders ==
    /\ ~crashed
    /\ ordersEffect
    /\ \E ok \in BOOLEAN :
          /\ lsOrders' = IF ok THEN Text(stringify(orders)) ELSE lsOrders
          /\ crashed' = ~ok
    /\ ordersEffect' = FALSE
    /\ logged' = <<>>
    /\ UNCHANGED <<clock, orders, sales, lsSales, timers,
                   saleCreationInProgress, batchSales, flips, created,
                   clearedIds, persistFailed, commands>>

addOrder(orderData) ==
    /\ ~crashed
    /\ ~ordersEffect
    /\ commands < MaxCommands
    /\ Len(orders) < MaxOrders
    /\ commands' = commands + 1
    /\ orders' = Append(orders, newOrder(orderData, clock))
    /\ ordersEffect' = TRUE
    /\ logged' = <<[user |-> Actor(newOrder(orderData, clock)),
                    type |-> "ORDER_CREATED", id |-> OrderId(clock)]>>
    /\ created' = [created EXCEPT ![OrderId(clock)] = Sat(@)]
    /\ UNCHANGED <<clock, sales, lsOrders, lsSales, timers,
                   saleCreationInProgress, crashed, batchSales, flips,
                   clearedIds, persistFailed>>

updateOrder(id, updates) ==
    LET new == scheduled(orders, id, updates)
        hs == FreeHandles(PendingHandles, Len(new), 1)
    IN  /\ ~crashed
        /\ ~ordersEffect
        /\ commands < MaxCommands
        /\ commands' = commands + 1
        /\ orders' = updatedOrders(orders, id, updates)
        /\ Len(timers) + Len(new) <= MaxTimers
        /\ Len(sales) + Len(timers) + Len(new) <= MaxSales
        /\ timers' = timers \o
                        [i \in 1..Len(new) |-> [order |-> new[i], handle |-> hs[i]]]
        /\ ordersEffect' = TRUE
        /\ logged' = statusLog(orders, id, updates)
        /\ batchSales' = IF new # <<>> /\ id \notin PendingIds
                         THEN [batchSales EXCEPT ![id] = 0] ELSE batchSales
        /\ flips' = FlipsAfter(orders, orders')
        /\ UNCHANGED <<clock, sales, lsOrders, lsSales,
                       saleCreationInProgress, crashed, created, clearedIds,
                       persistFailed>>

\* deleteOrder cancelling the pending callbacks of the order
deleteOrder_Cancels(id) ==
    /\ ~crashed
    /\ ~ordersEffect
    /\ commands < MaxCommands
    /\ commands' = commands + 1
    /\ orders' = removeOrder(orders, id)
    /\ timers' = SelectSeq(timers, LAMBDA t : t.order.id # id)
    /\ ordersEffect' = TRUE
    /\ logged' = IF getOrderById(orders, id) # <<>>
                 THEN <<[user |-> Actor(getOrderById(orders, id)[1]),
                         type |-> "ORDER_DELETED", id |-> id]>>
                 ELSE <<>>
    /\ UNCHANGED <<clock, sales, lsOrders, lsSales,
                   saleCreationInProgress, crashed, batchSales, flips,
                   created, clearedIds, persistFailed>>

deleteOrder(id) ==
    /\ ~crashed
    /\ ~ordersEffect
    /\ commands < MaxCommands
    /\ commands' = commands + 1
    /\ orders' = removeOrder(orders, id)
    /\ ordersEffect' = TRUE
    /\ logged' = IF getOrderById(orders, id) # <<>>
                 THEN <<[user |-> Actor(getOrderById(orders, id)[1]),
                         type |-> "ORDER_DELETED", id |-> id]>>
                 ELSE <<>>
    /\ UNCHANGED <<clock, sales, lsOrders, lsSales, timers,
                   saleCreationInProgress, crashed, batchSales, flips,
                   created, clearedIds, persistFailed>>

\* createSaleFromOrder leaving the id in the set
createSaleFromOrder_KeepsMark(order, ok) ==
    IF order.id \in saleCreationInProgress
    THEN /\ logged' = <<>>
         /\ UNCHANGED <<orders, sales, lsSales, ordersEffect,
                        saleCreationInProgress, batchSales, flips,
                        persistFailed>>
    ELSE /\ sales' = addSaleState(sales, saleFromOrder(order), clock)
         /\ lsSales' = addSaleStorage(lsSales, sales, saleFromOrder(order), clock, ok)
         /\ persistFailed' = (persistFailed \/ ("items" \in DOMAIN order /\ ~ok))
         /\ logged' = <<[user |-> Actor(order),
                         type |-> "SALE_CREATED_FROM_ORDER", id |-> order.id]>>
         /\ orders' = markSaleCreated(orders, order.id)
         /\ ordersEffect' = TRUE
         /\ saleCreationInProgress' = saleCreationInProgress \cup {order.id}
         /\ batchSales' = [batchSales EXCEPT
                              ![order.id] = IF sales' # sales THEN Sat(@) ELSE @]
         /\ flips' = FlipsAfter(orders, orders')

\* createSaleFromOrder(order), the body of the deferred callback
createSaleFromOrder(order, ok) ==
    IF order.id \in saleCreationInProgress
    THEN /\ logged' = <<>>
         /\ UNCHANGED <<orders, sales, lsSales, ordersEffect,
                        saleCreationInProgress, batchSales, flips,
                        persistFailed>>
    ELSE /\ sales' = addSaleState(sales, saleFromOrder(order), clock)
         /\ lsSales' = addSaleStorage(lsSales, sales, saleFromOrder(order), clock, ok)
         /\ persistFailed' = (persistFailed \/ ("items" \in DOMAIN order /\ ~ok))
         /\ logged' = <<[user |-> Actor(order),
                         type |-> "SALE_CREATED_FROM_ORDER", id |-> order.id]>>
         /\ orders' = markSaleCreated(orders, order.id)
         /\ ordersEffect' = TRUE
         /\ saleCreationInProgress' =
                (saleCreationInProgress \cup {order.id}) \ {order.id}
         /\ batchSales' = [batchSales EXCEPT
                              ![order.id] = IF sales' # sales THEN Sat(@) ELSE @]
         /\ flips' = FlipsAfter(orders, orders')

\* the oldest pending setTimeout callback fires
runTimer ==
    /\ ~crashed
    /\ ~ordersEffect
    /\ timers # <<>>
    /\ timers' = Tail(timers)
    /\ \E ok \in BOOLEAN : createSaleFromOrder(Head(timers).order, ok)
    /\ UNCHANGED <<clock, lsOrders, crashed, created, clearedIds, commands>>

\* addSale called by the user interface; its setItem throws when ~ok
addSaleWrite(saleData, ok) ==
    /\ ~crashed
    /\ ~ordersEffect
    /\ commands < MaxCommands
    /\ Len(sales) + Len(timers) < MaxSales
    /\ commands' = commands + 1
    /\ sales' = addSaleState(sales, saleData, clock)
    /\ lsSales' = addSaleStorage(lsSales, sales, saleData, clock, ok)
    /\ persistFailed' = (persistFailed \/ ("items" \in DOMAIN saleData /\ ~ok))
    /\ logged' = <<>>
    /\ UNCHANGED <<clock, orders, lsOrders, ordersEffect, timers,
                   saleCreationInProgress, crashed, batchSales, flips,
                   created, clearedIds>>

addSale(saleData) == \E ok \in BOOLEAN : addSaleWrite(saleData, ok)

clearSales ==
    /\ ~crashed
    /\ ~ordersEffect
    /\ commands < MaxCommands
    /\ commands' = commands + 1
    /\ sales' = <<>>
    /\ \E ok \in BOOLEAN :
          /\ lsSales' = IF ok THEN Null ELSE lsSales
          /\ persistFailed' = (persistFailed \/ ~ok)
    /\ clearedIds' = clearedIds \cup {sales[i].id : i \in 1..Len(sales)}
    /\ logged' = <<>>
    /\ UNCHANGED <<clock, orders, lsOrders, ordersEffect, timers,
                   saleCreationInProgress, crashed, batchSales, flips,
                   created>>

Next ==
    \/ Tick
    \/ persistOrders
    \/ \E p \in OrderPayloads : addOrder(p)
    \/ \E id \in OrderIds, u \in OrderUpdates : updateOrder(id, u)
    \/ \E id \in OrderIds : deleteOrder(id)
    \/ runTimer
    \/ \E d \in SaleInputs : addSale(d)
    \/ clearSales

Spec == Init /\ [][Next]_vars

\* the steps of the Order Store alone: no call of the Sales Store but the
\* deferred callback's
NextOrders ==
    \/ Tick
    \/ persistOrders
    \/ \E p \in OrderPayloads : addOrder(p)
    \/ \E id \in OrderIds, u \in OrderUpdates : updateOrder(id, u)
    \/ \E id \in OrderIds : deleteOrder(id)
    \/ runTimer

\* Among the steps of Next only runTimer takes the head off the timer queue
\* and only persistOrders resets the pending effect, and each is enabled
\* exactly when the condition below holds.
TimerFires ==
    ~crashed /\ ~ordersEffect /\ timers # <<>> /\ timers' = Tail(timers)
EffectRuns == ordersEffect /\ ordersEffect' = FALSE

\* the browser runs every pending timer and React every pending effect
FairSpec == Spec /\ WF_timers(TimerFires) /\ WF_ordersEffect(EffectRuns)

OrderFairSpec ==
    Init /\ [][NextOrders]_vars
         /\ WF_timers(TimerFires) /\ WF_ordersEffect(EffectRuns)

(***************************************************************************)
(* Properties                                                              *)
(***************************************************************************)
\* the deferred callback at the head of the queue runs in this step
RunsTimer == timers # <<>> /\ timers' = Tail(timers)

\* the element appended last
Last(seq) == seq[Len(seq)]

\* the orders of the sequence that carry the id
WithId(seq, id) == {i \in 1..Len(seq) : seq[i].id = id}

\* the ids of the orders in the Order Store
PresentIds == {orders[i].id : i \in 1..Len(orders)}

\* the pending deferred callbacks for the id
PendingFor(id) == {i \in 1..Len(timers) : timers[i].order.id = id}

NumericFields == {"subtotal", "total", "discount", "paymentReceived", "change"}

C2_OneSalePerBatch ==
    \A id \in OrderIds : created[id] <= 1 => batchSales[id] <= 1

\* C3: for an id given to one order only, at most one sale-derivation is
\* pending or running, and saleCreated went from false to true at most once.
C3_OneInFlightOneFlip ==
    \A id \in OrderIds :
        created[id] <= 1 =>
            /\ Cardinality(PendingFor(id)) <= 1
            /\ id \in saleCreationInProgress => PendingFor(id) = {}
            /\ flips[id] <= 1

\* C4: an order with status 'completed' and saleCreated false does not stay
\* so for ever: its Sale is derived and saleCreated set (or the order leaves
\* that state otherwise, or the session ends, or the user interface has
\* issued all the commands the model lets it issue).
C4_ObligationDischarged ==
    \A id \in OrderIds :
        (\E i \in WithId(orders, id) :
            orders[i].status = "completed" /\ orders[i].saleCreated = FALSE)
        ~>
        (\/ crashed
         \/ commands = MaxCommands
         \/ \A i \in WithId(orders, id) :
               ~(orders[i].status = "completed" /\ orders[i].saleCreated = FALSE))

\* C5: right after addOrder(payload), getOrderById of the id given to the new
\* order returns a record with saleCreated false, orderDate the timestamp of
\* the call and every other payload field as in the payload.
C5_AddThenGet ==
    [][\A p \in OrderPayloads :
          addOrder(p) =>
            LET r == getOrderById(orders', OrderId(clock))
            IN  /\ r # <<>>
                /\ r[1].saleCreated = FALSE
                /\ r[1].orderDate = toISOString(clock)
                /\ \A k \in DOMAIN p \ {"saleCreated"} :
                      k \in DOMAIN r[1] /\ r[1][k] = p[k]]_vars

\* C6: getSaleById finds no Sale under an id that clearSales has removed.
C6_ClearedStayNotFound ==
    \A id \in clearedIds : getSaleById(sales, id) = <<>>

\* C7: as long as no write to localStorage has failed, loading the entry
\* 'sales' as the startup initializer does gives the in-memory sequence.
C7_RoundTrip ==
    ~persistFailed => loadSales(lsSales) = sales

\* C7 witness: after a clearSales, two Sales are in memory and in the entry.
C7_Witness ==
    /\ ~persistFailed
    /\ clearedIds # {}
    /\ Len(sales) = 2
    /\ lsSales.kind = "string"
    /\ Len(lsSales.json) = 2

\* C8: the Sale stored by addSale(input) has each numeric field equal to the
\* input's when that is present and non-zero and 0 otherwise, every item's
\* quantity and price defaulted likewise, and cashier, storeLocation and the
\* items' productId as in the input.
C8_Defaults ==
    [][\A d \in SaleInputs :
          (addSale(d) /\ "items" \in DOMAIN d) =>
            /\ Len(sales') = Len(sales) + 1
            /\ LET s == Last(sales')
               IN  /\ \A k \in NumericFields :
                         /\ k \in DOMAIN s
                         /\ s[k] = IF k \in DOMAIN d /\ d[k] # 0 THEN d[k] ELSE 0
                   /\ s.cashier = d.cashier
                   /\ s.storeLocation = d.storeLocation
                   /\ Len(s.items) = Len(d.items)
                   /\ \A j \in 1..Len(d.items) :
                         /\ s.items[j].productId = d.items[j].productId
                         /\ \A k \in {"quantity", "price"} :
                               /\ k \in DOMAIN s.items[j]
                               /\ s.items[j][k] =
                                     IF k \in DOMAIN d.items[j] /\ d.items[j][k] # 0
                                     THEN d.items[j][k] ELSE 0]_vars

\* C8 witness: the Sale of the input without subtotal, discount,
\* paymentReceived, change, quantity and price, and with total 0, is stored.
C8_Witness ==
    \E j \in 1..Len(sales) :
        /\ sales[j].cashier = "carol"
        /\ sales[j].subtotal = 0
        /\ sales[j].change = 0
        /\ sales[j].items[1].quantity = 0
        /\ sales[j].items[1].productId = "p2"

\* C9: the Sale stored by the derivation from the order snapshot o has
\* items = o.items, subtotal = o.total, total = o.finalAmount, discount =
\* o.discount or 0, paymentReceived = o.advancePayment when non-zero and
\* o.finalAmount otherwise, change = 0, cashier = o.createdBy or 'System'
\* and the fixed storeLocation.  A snapshot without items stores no Sale.
C9_DerivedSale ==
    [][(RunsTimer /\ "items" \in DOMAIN Head(timers).order) =>
          LET o == Head(timers).order
              s == Last(sales')
          IN  /\ Len(sales') = Len(sales) + 1
              /\ s.items = o.items
              /\ s.subtotal = o.total
              /\ s.total = o.finalAmount
              /\ s.discount = (IF "discount" \in DOMAIN o THEN o.discount ELSE 0)
              /\ s.paymentReceived =
                    (IF "advancePayment" \in DOMAIN o /\ o.advancePayment # 0
                     THEN o.advancePayment ELSE o.finalAmount)
              /\ s.change = 0
              /\ s.cashier = (IF "createdBy" \in DOMAIN o /\ o.createdBy # ""
                              THEN o.createdBy ELSE "System")
              /\ s.storeLocation = "UP2DATE FASHION"]_vars

\* C9 witness: the order of total 20, finalAmount 18, discount 2 and no
\* advance has given the Sale of total 18, discount 2, paymentReceived 18,
\* change 0.
C9_Witness ==
    \E i \in 1..Len(orders), j \in 1..Len(sales) :
        /\ orders[i].customerName = "A"
        /\ orders[i].saleCreated = TRUE
        /\ sales[j].items = <<Item1>>
        /\ sales[j].subtotal = 20
        /\ sales[j].total = 18
        /\ sales[j].discount = 2
        /\ sales[j].paymentReceived = 18
        /\ sales[j].change = 0
        /\ sales[j].cashier = "System"

\* C10: the Sales of the sequence have pairwise distinct ids.
C10_DistinctSaleIds ==
    \A i, j \in 1..Len(sales) : i # j => sales[i].id # sales[j].id

\* C11: the orders of the sequence have pairwise distinct ids.
C11_DistinctOrderIds ==
    \A i, j \in 1..Len(orders) : i # j => orders[i].id # orders[j].id

\* C12: saleCreated becomes true only in the step of a derivation from that
\* order that appends a Sale to the Sales Store, and a new order starts with
\* saleCreated false.
C12_SetOnlyWithSale ==
    [][/\ \A id \in OrderIds :
             Flipped(orders, orders', id) =>
                /\ RunsTimer
                /\ Head(timers).order.id = id
                /\ Len(sales') = Len(sales) + 1
       /\ Len(orders') > Len(orders) => Last(orders').saleCreated = FALSE]_vars

\* C13: an updateOrder that schedules a derivation leaves the Sales Store as
\* it is and the order's saleCreated false, and the derivation is pending
\* after the step: it runs in a later step.
C13_NotInTheUpdateStep ==
    [][(commands' # commands /\ Len(orders') = Len(orders) /\ orders' # orders) =>
          \A id \in PresentIds, u \in OrderUpdates :
             (scheduled(orders, id, u) # <<>> /\ updateOrder(id, u)) =>
                /\ sales' = sales
                /\ lsSales' = lsSales
                /\ \A i \in WithId(orders, id) :
                      Schedules(orders[i], u) => orders'[i].saleCreated = FALSE
                /\ Len(timers') = Len(timers) + Len(scheduled(orders, id, u))
                /\ \A n \in (Len(timers) + 1)..Len(timers') :
                      timers'[n].order.id = id]_vars

\* C13 witness: right after updateOrder(id, {status: 'completed'}) the order
\* is completed, its saleCreated false, its derivation pending and no Sale
\* in the Sales Store.
C13_Witness ==
    /\ logged # <<>>
    /\ logged[1].type = "ORDER_STATUS_UPDATED"
    /\ logged[1].to = "completed"
    /\ sales = <<>>
    /\ \E i \in 1..Len(orders) :
          /\ orders[i].id = logged[1].id
          /\ orders[i].status = "completed"
          /\ orders[i].saleCreated = FALSE
          /\ PendingFor(orders[i].id) # {}

\* C14: the snapshot handed to the deferred callback is the order as merged
\* by the scheduling update, with the update's fields; no step but the
\* callback's own changes a pending snapshot; the Sale takes items, subtotal
\* and total from the snapshot.
C14_PostUpdateSnapshot ==
    [][/\ Len(timers') > Len(timers) =>
             \A id \in PresentIds, u \in OrderUpdates :
                updateOrder(id, u) =>
                   \A n \in (Len(timers) + 1)..Len(timers') :
                       /\ \E i \in WithId(orders, id) :
                             /\ Schedules(orders[i], u)
                             /\ timers'[n].order = orders'[i]
                       /\ \A k \in DOMAIN u : timers'[n].order[k] = u[k]
       /\ ~RunsTimer =>
             /\ Len(timers') >= Len(timers)
             /\ SubSeq(timers', 1, Len(timers)) = timers
       /\ (RunsTimer /\ "items" \in DOMAIN Head(timers).order) =>
             /\ Len(sales') = Len(sales) + 1
             /\ Last(sales').items = Head(timers).order.items
             /\ Last(sales').subtotal = Head(timers).order.total
             /\ Last(sales').total = Head(timers).order.finalAmount]_vars

\* C14 witness: the order was completed with finalAmount 20, its finalAmount
\* set to 25 before the callback ran, and the Sale has total 20.
C14_Witness ==
    \E i \in 1..Len(orders), j \in 1..Len(sales) :
        /\ created[orders[i].id] = 1
        /\ orders[i].customerName = "Z"
        /\ orders[i].finalAmount = 25
        /\ orders[i].saleCreated = TRUE
        /\ sales[j].cashier = "System"
        /\ sales[j].total = 20

C16_FailedWriteKeepsSale ==
    [][(commands' # commands /\ orders' = orders) =>
          \A d \in SaleInputs :
             ("items" \in DOMAIN d /\ addSaleWrite(d, FALSE)) =>
                /\ Len(sales') = Len(sales) + 1
                /\ SubSeq(sales', 1, Len(sales)) = sales
                /\ getSaleById(sales', Last(sales').id) = <<Last(sales')>>
                /\ lsSales' = lsSales]_vars

C18_UpdateFrame ==
    [][(commands' # commands /\ ordersEffect') =>
          \A id \in OrderIds, u \in OrderUpdates :
             updateOrder(id, u) =>
                /\ Len(orders') = Len(orders)
                /\ \A i \in 1..Len(orders) :
                      IF orders[i].id = id
                      THEN /\ DOMAIN orders'[i] = DOMAIN orders[i] \cup DOMAIN u
                           /\ \A k \in DOMAIN u : orders'[i][k] = u[k]
                           /\ \A k \in DOMAIN orders[i] \ DOMAIN u :
                                 orders'[i][k] = orders[i][k]
                      ELSE orders'[i] = orders[i]
                /\ sales' = sales
                /\ lsSales' = lsSales
                /\ WithId(orders, id) = {} =>
                      /\ orders' = orders
                      /\ logged' = <<>>
                      /\ timers' = timers]_vars

\* C18 witness: of two orders with different ids one has just been set to
\* 'completed' and the other has not.
C18_Witness ==
    /\ Len(orders) = 2
    /\ orders[1].id # orders[2].id
    /\ logged # <<>>
    /\ logged[1].type = "ORDER_STATUS_UPDATED"
    /\ logged[1].to = "completed"
    /\ \E i, j \in 1..2 :
          /\ orders[i].id = logged[1].id
          /\ orders[i].status = "completed"
          /\ orders[j].id # logged[1].id
          /\ orders[j].status = "pending"

\* C19: a step that changes the sales sequence is clearSales or leaves the
\* sequence it found as a prefix of the new one.
C19_AppendOnly ==
    [][sales' # sales =>
          \/ clearSales
          \/ /\ Len(sales') > Len(sales)
             /\ SubSeq(sales', 1, Len(sales)) = sales]_vars

\* C19 witness: a derivation has appended its Sale behind the Sale of an
\* addSale call.
C19_Witness ==
    /\ Len(sales) = 2
    /\ sales[1].cashier = "bob"
    /\ sales[2].cashier = "System"

\* C20: the in-progress set is empty in every state.
C20_InProgressEmpty ==
    saleCreationInProgress = {}

\* C20 witness: two derivations for one order have run one after the other,
\* the second was not turned away, and the set is empty.
C20_Witness ==
    /\ saleCreationInProgress = {}
    /\ timers = <<>>
    /\ \E id \in OrderIds : created[id] = 1 /\ batchSales[id] = 2

TypeOK ==
    /\ clock \in 0..MaxClock
    /\ commands \in 0..MaxCommands
    /\ Len(orders) <= MaxOrders
    /\ Len(sales) <= MaxSales
    /\ Len(timers) <= MaxTimers
    /\ ordersEffect \in BOOLEAN
    /\ crashed \in BOOLEAN
    /\ saleCreationInProgress \subseteq OrderIds
====
